---- MODULE Spec2Model ----
(***************************************************************************)
(* The multidrill concurrency comparison: the four strategy runners        *)
(* (01_sequential.py, 02_threadpool.py, 03_processpool.py, 04_hybrid.py)   *)
(* and the harness that launches and times them (run_all_comparison.py).   *)
(*                                                                         *)
(* Time is counted in units of the workload latency: one unit is one       *)
(* time.sleep(2) of square_number.                                         *)
(***************************************************************************)
EXTENDS Integers, Sequences, FiniteSets, TLC

VARIABLES
    strategy,     \* which runner script is executing
    pc,           \* the runner's position: "start", "run", "print", "done"
    queue,        \* pending submissions of the outer pool (items, or chunk indices)
    running,      \* WorkItems whose square_number call is in flight
    execs,        \* per WorkItem: how many times a worker started it
    results,      \* per WorkItem: the string square_number returned (NoResult before)
    chunks,       \* 04_hybrid.py: the list of chunks
    procChunk,    \* 04_hybrid.py: per worker process, the chunk it is running (0: idle)
    tqueue,       \* 04_hybrid.py: per chunk, the pending items of its inner thread pool
    all_results,  \* 04_hybrid.py: per chunk, the batch process_chunk returned
    printed,      \* the result lines printed so far
    clock,        \* elapsed time in latency units
    due,          \* in-flight items whose sleep has elapsed
    reordered,    \* history: a future of the outer pool completed before an earlier one
    hpc,          \* the harness's position: "launch", "wait", "report", "table", "done"
    idx,          \* the harness loop's position in approaches (1-based)
    alive,        \* the strategy subprocesses that are alive (positions in approaches)
    result,       \* the CompletedProcess subprocess.run returned
    elapsed,      \* time.time() - start of the current iteration
    timings,      \* the list of (label, elapsed)
    out,          \* what the harness printed in its loop
    table,        \* the rows of the final comparison table, once printed
    captured      \* history: the CompletedProcess of every subprocess that exited

rvars == <<strategy, pc, queue, running, execs, results, chunks, procChunk,
           tqueue, all_results, printed, clock, due, reordered>>

hvars == <<hpc, idx, alive, result, elapsed, timings, out, table, captured>>

vars == <<rvars, hvars>>

-----------------------------------------------------------------------------
(* Program constants *)

numbers == <<1, 2, 3, 4, 5, 6, 7, 8, 9, 10, 11, 12, 13, 14>>

Items == {numbers[i] : i \in 1..Len(numbers)}

Strategies == {"sequential", "threadpool", "processpool", "hybrid"}

ThreadPoolWorkers == 14

ProcessPoolWorkers == 3

HybridProcesses == 3

HybridThreads == 3

chunk_size == 5

Procs == 1..HybridProcesses

-----------------------------------------------------------------------------
(* Pure helpers *)

Min(a, b) == IF a < b THEN a ELSE b

CeilDiv(a, b) == (a + b - 1) \div b

\* Python's s[lo:hi] on a list (0-based, hi exclusive, clipped to the length).
Slice(s, lo, hi) == SubSeq(s, lo + 1, Min(hi, Len(s)))

\* range(0, len, step) as a sequence of start offsets.
RangeStarts(len, step) == [k \in 1..CeilDiv(len, step) |-> (k - 1) * step]

\* Chunks with the slice's end taken inclusive (numbers[i:i + chunk_size + 1]).
ChunksOverlapping(s, cs) ==
    LET starts == RangeStarts(Len(s), cs)
    IN  [k \in 1..Len(starts) |-> Slice(s, starts[k], starts[k] + cs + 1)]

\* [numbers[i:i + chunk_size] for i in range(0, len(numbers), chunk_size)]
Chunks(s, cs) ==
    LET starts == RangeStarts(Len(s), cs)
    IN  [k \in 1..Len(starts) |-> Slice(s, starts[k], starts[k] + cs)]

SeqToSet(s) == {s[i] : i \in 1..Len(s)}

RECURSIVE Flatten(_)
Flatten(ss) == IF ss = <<>> THEN <<>> ELSE Head(ss) \o Flatten(Tail(ss))

NoResult == [n |-> 0, sq |-> 0, pid |-> 0]

\* square_number of 01/02/03: f"Square of {number} = {number * number}"
square_number(number) == [n |-> number, sq |-> number * number, pid |-> 0]

\* square_number of 04: the same line with " (PID: {os.getpid()})" appended
square_number_pid(number, p) == [n |-> number, sq |-> number * number, pid |-> p]

\* max_workers of the flat pool a strategy builds (the sequential loop is one worker)
MaxWorkers(s) ==
    CASE s = "sequential"  -> 1
      [] s = "threadpool"  -> ThreadPoolWorkers
      [] s = "processpool" -> ProcessPoolWorkers
      [] OTHER             -> HybridProcesses * HybridThreads

-----------------------------------------------------------------------------
(* The runners *)

InitRunner ==
    /\ strategy \in Strategies
    /\ pc = "start"
    /\ queue = <<>>
    /\ running = {}
    /\ execs = [n \in Items |-> 0]
    /\ results = [n \in Items |-> NoResult]
    /\ chunks = <<>>
    /\ procChunk = [p \in Procs |-> 0]
    /\ tqueue = <<>>
    /\ all_results = <<>>
    /\ printed = <<>>
    /\ clock = 0
    /\ due = {}
    /\ reordered = FALSE

\* start = time.time(); the loop begins / executor.map submits every item /
\* the chunks are built and process_executor.map submits every chunk.
Start ==
    /\ pc = "start"
    /\ pc' = "run"
    /\ IF strategy = "hybrid"
       THEN /\ chunks' = Chunks(numbers, chunk_size)
            /\ queue' = [k \in 1..Len(chunks') |-> k]
            /\ tqueue' = [k \in 1..Len(chunks') |-> <<>>]
            /\ all_results' = [k \in 1..Len(chunks') |-> <<>>]
       ELSE /\ queue' = numbers
            /\ UNCHANGED <<chunks, tqueue, all_results>>
    /\ UNCHANGED <<strategy, running, execs, results, procChunk, printed, clock, due, reordered>>
    /\ UNCHANGED hvars

\* A call whose sleep is over may return; without timing any call in flight may.
MayReturn(n, timed) == n \in running /\ (timed => n \in due)

\* 01_sequential.py: for num in numbers: result = square_number(num) -- the call begins
CanSeqCall ==
    /\ strategy = "sequential" /\ pc = "run"
    /\ queue # <<>> /\ running = {}

SeqCall ==
    /\ CanSeqCall
    /\ running' = {Head(queue)}
    /\ execs' = [execs EXCEPT ![Head(queue)] = @ + 1]
    /\ queue' = Tail(queue)
    /\ UNCHANGED <<strategy, pc, results, chunks, procChunk, tqueue, all_results,
                   printed, clock, due, reordered>>
    /\ UNCHANGED hvars

\* 01_sequential.py: the call returns; results.append(result); print(result)
SeqReturn(n, timed) ==
    /\ strategy = "sequential" /\ pc = "run"
    /\ MayReturn(n, timed)
    /\ running' = running \ {n}
    /\ due' = due \ {n}
    /\ results' = [results EXCEPT ![n] = square_number(n)]
    /\ printed' = Append(printed, square_number(n))
    /\ pc' = IF queue = <<>> THEN "done" ELSE pc
    /\ UNCHANGED <<strategy, queue, execs, chunks, procChunk, tqueue, all_results, clock,
                   reordered>>
    /\ UNCHANGED hvars

\* CanPoolTake without the pool's max_workers limit.
CanPoolTakeUncapped ==
    /\ strategy \in {"threadpool", "processpool"} /\ pc = "run"
    /\ queue # <<>>

\* 02/03: an idle worker of the pool takes the next submitted item
CanPoolTake ==
    /\ strategy \in {"threadpool", "processpool"} /\ pc = "run"
    /\ queue # <<>>
    /\ Cardinality(running) < MaxWorkers(strategy)

\* PoolTake that reads the next item without removing it from the queue.
PoolTakeNoDequeue ==
    /\ strategy \in {"threadpool", "processpool"} /\ pc = "run"
    /\ queue # <<>>
    /\ Cardinality(running) < MaxWorkers(strategy)
    /\ running' = running \cup {Head(queue)}
    /\ execs' = [execs EXCEPT ![Head(queue)] = @ + 1]
    /\ UNCHANGED <<strategy, pc, queue, results, chunks, procChunk, tqueue, all_results,
                   printed, clock, due, reordered>>
    /\ UNCHANGED hvars

PoolTake ==
    /\ CanPoolTake
    /\ running' = running \cup {Head(queue)}
    /\ execs' = [execs EXCEPT ![Head(queue)] = @ + 1]
    /\ queue' = Tail(queue)
    /\ UNCHANGED <<strategy, pc, results, chunks, procChunk, tqueue, all_results,
                   printed, clock, due, reordered>>
    /\ UNCHANGED hvars

\* 02/03: a worker's square_number call returns and sets its future's result
PoolFinish(n, timed) ==
    /\ strategy \in {"threadpool", "processpool"} /\ pc = "run"
    /\ MayReturn(n, timed)
    /\ running' = running \ {n}
    /\ due' = due \ {n}
    /\ results' = [results EXCEPT ![n] = square_number(n)]
    /\ reordered' = (reordered \/ \E m \in running : m < n)
    /\ UNCHANGED <<strategy, pc, queue, execs, chunks, procChunk, tqueue, all_results,
                   printed, clock>>
    /\ UNCHANGED hvars

\* 04: an idle worker process takes the next submitted chunk and enters
\* process_chunk: thread_executor.map submits the chunk's items
CanProcTake(p) ==
    /\ strategy = "hybrid" /\ pc = "run"
    /\ queue # <<>>
    /\ procChunk[p] = 0

ProcTake(p) ==
    /\ CanProcTake(p)
    /\ procChunk' = [procChunk EXCEPT ![p] = Head(queue)]
    /\ tqueue' = [tqueue EXCEPT ![Head(queue)] = chunks[Head(queue)]]
    /\ queue' = Tail(queue)
    /\ UNCHANGED <<strategy, pc, running, execs, results, chunks, all_results,
                   printed, clock, due, reordered>>
    /\ UNCHANGED hvars

\* CanThreadTake without the inner pool's max_workers limit.
CanThreadTakeUncapped(p) ==
    /\ strategy = "hybrid" /\ pc = "run"
    /\ procChunk[p] # 0
    /\ tqueue[procChunk[p]] # <<>>

\* 04: an idle thread of process p's pool takes the next item of its chunk
CanThreadTake(p) ==
    /\ strategy = "hybrid" /\ pc = "run"
    /\ procChunk[p] # 0
    /\ tqueue[procChunk[p]] # <<>>
    /\ Cardinality(running \cap SeqToSet(chunks[procChunk[p]])) < HybridThreads

ThreadTake(p) ==
    /\ CanThreadTake(p)
    /\ LET c == procChunk[p]
           n == Head(tqueue[c])
       IN  /\ running' = running \cup {n}
           /\ execs' = [execs EXCEPT ![n] = @ + 1]
           /\ tqueue' = [tqueue EXCEPT ![c] = Tail(@)]
    /\ UNCHANGED <<strategy, pc, queue, results, chunks, procChunk, all_results,
                   printed, clock, due, reordered>>
    /\ UNCHANGED hvars

\* 04: a thread's square_number call returns inside process p
ThreadFinish(p, n, timed) ==
    /\ strategy = "hybrid" /\ pc = "run"
    /\ procChunk[p] # 0
    /\ n \in SeqToSet(chunks[procChunk[p]])
    /\ MayReturn(n, timed)
    /\ running' = running \ {n}
    /\ due' = due \ {n}
    /\ results' = [results EXCEPT ![n] = square_number_pid(n, p)]
    /\ UNCHANGED <<strategy, pc, queue, execs, chunks, procChunk, tqueue, all_results,
                   printed, clock, reordered>>
    /\ UNCHANGED hvars

\* 04: the inner pool has shut down; process_chunk returns list(map(...)), the
\* chunk's results in the chunk's order, and the process is idle again
ProcReturn(p) ==
    /\ strategy = "hybrid" /\ pc = "run"
    /\ procChunk[p] # 0
    /\ LET c == procChunk[p]
       IN  /\ tqueue[c] = <<>>
           /\ running \cap SeqToSet(chunks[c]) = {}
           /\ all_results' = [all_results EXCEPT
                                ![c] = [i \in 1..Len(chunks[c]) |-> results[chunks[c][i]]]]
    /\ procChunk' = [procChunk EXCEPT ![p] = 0]
    /\ reordered' = (reordered \/ \E q \in Procs : procChunk[q] # 0 /\ procChunk[q] < procChunk[p])
    /\ UNCHANGED <<strategy, pc, queue, running, execs, results, chunks, tqueue,
                   printed, clock, due>>
    /\ UNCHANGED hvars

\* 02/03/04: the with block of the outer pool exits (shutdown(wait=True))
Join ==
    /\ strategy # "sequential" /\ pc = "run"
    /\ queue = <<>> /\ running = {}
    /\ \A p \in Procs : procChunk[p] = 0
    /\ pc' = "print"
    /\ UNCHANGED <<strategy, queue, running, execs, results, chunks, procChunk, tqueue,
                   all_results, printed, clock, due, reordered>>
    /\ UNCHANGED hvars

\* What the print loop iterates: map's results in submission order (02/03), or
\* the batches in chunk order, each in its own order (04).
Output ==
    IF strategy = "hybrid"
    THEN Flatten(all_results)
    ELSE [i \in 1..Len(numbers) |-> results[numbers[i]]]

\* PrintLine that prints the results in any order (as they complete).
PrintLineAsCompleted ==
    /\ pc = "print"
    /\ \E i \in 1..Len(Output) :
          /\ \A j \in 1..Len(printed) : printed[j] # Output[i]
          /\ printed' = Append(printed, Output[i])
    /\ UNCHANGED <<strategy, pc, queue, running, execs, results, chunks, procChunk,
                   tqueue, all_results, clock, due, reordered>>
    /\ UNCHANGED hvars

\* for result in results: print(result) -- one line
PrintLine ==
    /\ pc = "print"
    /\ Len(printed) < Len(Output)
    /\ printed' = Append(printed, Output[Len(printed) + 1])
    /\ UNCHANGED <<strategy, pc, queue, running, execs, results, chunks, procChunk,
                   tqueue, all_results, clock, due, reordered>>
    /\ UNCHANGED hvars

\* the print loop ends; elapsed = time.time() - start
Finish ==
    /\ pc = "print"
    /\ Len(printed) = Len(Output)
    /\ pc' = "done"
    /\ UNCHANGED <<strategy, queue, running, execs, results, chunks, procChunk, tqueue,
                   all_results, printed, clock, due, reordered>>
    /\ UNCHANGED hvars

\* Some idle worker can take pending work now.
TakeEnabled ==
    \/ CanSeqCall
    \/ CanPoolTake
    \/ \E p \in Procs : CanProcTake(p) \/ CanThreadTake(p)

\* One latency unit passes: every sleep in flight elapses.  Workers take pending
\* work whenever idle, and calls whose sleep is over return before the next unit.
Tick ==
    /\ pc = "run"
    /\ running # {} /\ due = {}
    /\ ~TakeEnabled
    /\ clock' = clock + 1
    /\ due' = running
    /\ UNCHANGED <<strategy, pc, queue, running, execs, results, chunks, procChunk,
                   tqueue, all_results, printed, reordered>>
    /\ UNCHANGED hvars

RunnerStep(timed) ==
    \/ Start
    \/ SeqCall
    \/ \E n \in Items : SeqReturn(n, timed)
    \/ PoolTake
    \/ \E n \in Items : PoolFinish(n, timed)
    \/ \E p \in Procs : ProcTake(p)
    \/ \E p \in Procs : ThreadTake(p)
    \/ \E p \in Procs, n \in Items : ThreadFinish(p, n, timed)
    \/ \E p \in Procs : ProcReturn(p)
    \/ Join
    \/ PrintLine
    \/ Finish

\* The runner is not executing (the harness is being modelled).
RunnerIdle ==
    /\ strategy = "none"
    /\ pc = "off"
    /\ queue = <<>>
    /\ running = {}
    /\ execs = [n \in Items |-> 0]
    /\ results = [n \in Items |-> NoResult]
    /\ chunks = <<>>
    /\ procChunk = [p \in Procs |-> 0]
    /\ tqueue = <<>>
    /\ all_results = <<>>
    /\ printed = <<>>
    /\ clock = 0
    /\ due = {}
    /\ reordered = FALSE

-----------------------------------------------------------------------------
(* The comparison harness *)

\* Largest elapsed time a subprocess run is measured at (whole time units).
MaxElapsed == 2

approaches ==
    << [script |-> "01_sequential.py",  label |-> "Sequential (No Parallelism)"],
       [script |-> "02_threadpool.py",  label |-> "ThreadPool (14 threads)"],
       [script |-> "03_processpool.py", label |-> "ProcessPool (3 processes)"],
       [script |-> "04_hybrid.py",      label |-> "Hybrid (3 proc x 3 threads)"] >>

NoProcess == [returncode |-> 0, stdout |-> "", stderr |-> ""]

\* What subprocess.run(..., capture_output=True, text=True) can hand back: a clean
\* run, a clean run that wrote a warning, a run that failed after printing, a run
\* that failed before printing anything, and a run that died without a message.
Outcomes ==
    { [returncode |-> 0, stdout |-> "lines", stderr |-> ""],
      [returncode |-> 0, stdout |-> "lines", stderr |-> "Warning"],
      [returncode |-> 1, stdout |-> "lines", stderr |-> "Traceback"],
      [returncode |-> 2, stdout |-> "",      stderr |-> "can't open file"],
      [returncode |-> 1, stdout |-> "",      stderr |-> ""] }

\* speedup with the division the wrong way round (elapsed / sequential_time).
speedup_inverted(seq_time, e) == IF e > 0 THEN <<e, seq_time>> ELSE <<0, 1>>

\* speedup = sequential_time / elapsed if elapsed > 0 else 0, as the exact
\* ratio <<numerator, denominator>> of the float division.
speedup(seq_time, e) == IF e > 0 THEN <<seq_time, e>> ELSE <<0, 1>>

\* Two ratios denote the same number.
RatEq(a, b) == a[1] * b[2] = b[1] * a[2]

\* sequential_time = timings[0][1] if timings else 1
sequential_time(ts) == IF ts # <<>> THEN ts[1].elapsed ELSE 1

\* The lines one iteration prints after its subprocess returned.
Report(label, r) ==
    (IF r.stdout # "" THEN << [kind |-> "stdout", label |-> label, text |-> r.stdout] >>
     ELSE <<>>)
    \o
    (IF r.stderr # "" THEN << [kind |-> "stderr", label |-> label, text |-> r.stderr] >>
     ELSE <<>>)

HarnessIdle ==
    /\ hpc = "off"
    /\ idx = 0
    /\ alive = {}
    /\ result = NoProcess
    /\ elapsed = 0
    /\ timings = <<>>
    /\ out = <<>>
    /\ table = <<>>
    /\ captured = <<>>

InitHarness ==
    /\ hpc = "launch"
    /\ idx = 1
    /\ alive = {}
    /\ result = NoProcess
    /\ elapsed = 0
    /\ timings = <<>>
    /\ out = <<>>
    /\ table = <<>>
    /\ captured = <<>>

\* for script, label in approaches: print the ">> Running" banner,
\* start = time.time(), subprocess.run(...) starts the strategy's subprocess
Launch ==
    /\ hpc = "launch"
    /\ idx <= Len(approaches)
    /\ out' = Append(out, [kind |-> "running", label |-> approaches[idx].label, text |-> ""])
    /\ alive' = alive \cup {idx}
    /\ hpc' = "wait"
    /\ UNCHANGED <<idx, result, elapsed, timings, table, captured>>
    /\ UNCHANGED rvars

\* ChildExit as subprocess.run(..., check=True) would act: a nonzero exit status
\* raises CalledProcessError, which nothing catches.
ChildExitChecked(r, e) ==
    /\ hpc = "wait"
    /\ idx \in alive
    /\ alive' = alive \ {idx}
    /\ captured' = Append(captured, r)
    /\ IF r.returncode # 0
       THEN hpc' = "crashed" /\ UNCHANGED <<result, elapsed>>
       ELSE hpc' = "report" /\ result' = r /\ elapsed' = e
    /\ UNCHANGED <<idx, timings, out, table>>
    /\ UNCHANGED rvars

\* the subprocess exits; subprocess.run returns its CompletedProcess (no check=True,
\* so a nonzero exit status raises nothing); elapsed = time.time() - start
ChildExit(r, e) ==
    /\ hpc = "wait"
    /\ idx \in alive
    /\ alive' = alive \ {idx}
    /\ result' = r
    /\ elapsed' = e
    /\ captured' = Append(captured, r)
    /\ hpc' = "report"
    /\ UNCHANGED <<idx, timings, out, table>>
    /\ UNCHANGED rvars

\* PrintReport that keeps the captured text for later instead of printing it.
PrintReportDeferred ==
    /\ hpc = "report"
    /\ timings' = Append(timings, [label |-> approaches[idx].label, elapsed |-> elapsed])
    /\ idx' = idx + 1
    /\ hpc' = IF idx = Len(approaches) THEN "table" ELSE "launch"
    /\ UNCHANGED <<alive, result, elapsed, out, table, captured>>
    /\ UNCHANGED rvars

\* PrintReport that puts the new record in front (timings.insert(0, ...)).
PrintReportPrepend ==
    /\ hpc = "report"
    /\ out' = out \o Report(approaches[idx].label, result)
    /\ timings' = << [label |-> approaches[idx].label, elapsed |-> elapsed] >> \o timings
    /\ idx' = idx + 1
    /\ hpc' = IF idx = Len(approaches) THEN "table" ELSE "launch"
    /\ UNCHANGED <<alive, result, elapsed, table, captured>>
    /\ UNCHANGED rvars

\* if result.stdout: print; if result.stderr: print("Error: ..."); timings.append
PrintReport ==
    /\ hpc = "report"
    /\ out' = out \o Report(approaches[idx].label, result)
    /\ timings' = Append(timings, [label |-> approaches[idx].label, elapsed |-> elapsed])
    /\ idx' = idx + 1
    /\ hpc' = IF idx = Len(approaches) THEN "table" ELSE "launch"
    /\ UNCHANGED <<alive, result, elapsed, table, captured>>
    /\ UNCHANGED rvars

\* the final comparison: one row per timing with its speedup
PrintTable ==
    /\ hpc = "table"
    /\ table' = [i \in 1..Len(timings) |->
                   [label   |-> timings[i].label,
                    elapsed |-> timings[i].elapsed,
                    speedup |-> speedup(sequential_time(timings), timings[i].elapsed)]]
    /\ hpc' = "done"
    /\ UNCHANGED <<idx, alive, result, elapsed, timings, out, captured>>
    /\ UNCHANGED rvars

HarnessStep ==
    \/ Launch
    \/ \E r \in Outcomes, e \in 0..MaxElapsed : ChildExit(r, e)
    \/ PrintReport
    \/ PrintTable

-----------------------------------------------------------------------------
(* Specifications *)

Init == InitRunner /\ HarnessIdle

Next == RunnerStep(FALSE)

\* A runner under every interleaving of its workers.
Spec == Init /\ [][Next]_vars

TimedNext == RunnerStep(TRUE) \/ Tick

\* A runner under the clock, with workers that take pending work whenever idle.
TimedSpec == Init /\ [][TimedNext]_vars

HarnessInit == RunnerIdle /\ InitHarness

HarnessNext == HarnessStep

\* The harness over every outcome and elapsed time of its four subprocesses.
HarnessSpec == HarnessInit /\ [][HarnessNext]_vars

-----------------------------------------------------------------------------
(* Properties of the runners *)

\* The lines printed for WorkItem n.
LinesOf(n) == {i \in 1..Len(printed) : printed[i].n = n}

\* The worker processes named on the printed lines, and the lines naming p.
PrintedPids == {printed[i].pid : i \in 1..Len(printed)}

LinesOfPid(p) == {i \in 1..Len(printed) : printed[i].pid = p}

\* The in-flight items of chunk c.
InFlightOf(c) == running \cap SeqToSet(chunks[c])

\* C1: in each of the four runners, under every interleaving of the workers, no
\* WorkItem is ever started by two workers, and when the run has finished every
\* WorkItem was started exactly once, exactly one printed line exists per WorkItem,
\* and the printed squares are exactly {n*n : n in 1..14}, none twice, none missing.
C1_ExactlyOneResultPerItem ==
    /\ \A n \in Items : execs[n] <= 1
    /\ pc = "done" =>
          /\ Len(printed) = Len(numbers)
          /\ \A n \in Items : execs[n] = 1 /\ Cardinality(LinesOf(n)) = 1
          /\ \A i \in 1..Len(printed) : printed[i].sq = printed[i].n * printed[i].n
          /\ {printed[i].sq : i \in 1..Len(printed)} = {n * n : n \in 1..14}
          /\ \A i, j \in 1..Len(printed) : printed[i].sq = printed[j].sq => i = j

\* The hybrid run has finished, its chunks having completed out of order.
C1_Witness ==
    /\ strategy = "hybrid" /\ pc = "done" /\ reordered
    /\ Len(printed) = 14

\* C2: the printed lines follow the submission order whatever order the workers
\* complete in: items 1..14 in that order for the sequential, thread-pool and
\* process-pool runners; chunk by chunk in chunk order, each chunk in its own
\* order, for the hybrid runner; and a finished run has printed all of them.
C2_ResultsInSubmissionOrder ==
    /\ strategy \in {"sequential", "threadpool", "processpool"} =>
          \A i \in 1..Len(printed) : printed[i].n = numbers[i]
    /\ strategy = "hybrid" =>
          /\ Len(printed) <= Len(Flatten(chunks))
          /\ \A i \in 1..Len(printed) : printed[i].n = Flatten(chunks)[i]
    /\ pc = "done" => Len(printed) = Len(numbers)

\* The thread-pool run has printed everything although a later item completed
\* before an earlier one.
C2_Witness ==
    /\ strategy = "threadpool" /\ pc = "done" /\ reordered
    /\ Len(printed) = 14

\* C3: for the fixed 14-item input the hybrid runner builds exactly 3 chunks (one
\* per worker process), its chunk size equals ceiling(14 / 3), the chunks are
\* contiguous and pairwise disjoint, their concatenation in chunk order is the
\* original sequence, and their sizes are 5, 5, 4.
C3_ChunkPartition ==
    (strategy = "hybrid" /\ pc # "start") =>
        /\ Len(chunks) = HybridProcesses
        /\ chunk_size = CeilDiv(Len(numbers), HybridProcesses)
        /\ \A k \in 1..Len(chunks) : Len(chunks[k]) <= chunk_size
        /\ \A k \in 1..(Len(chunks) - 1) : Len(chunks[k]) = chunk_size
        /\ Flatten(chunks) = numbers
        /\ \A k, l \in 1..Len(chunks) :
              k # l => SeqToSet(chunks[k]) \cap SeqToSet(chunks[l]) = {}
        /\ [k \in 1..Len(chunks) |-> Len(chunks[k])] = <<5, 5, 4>>

\* The hybrid runner has partitioned the input.
C3_Witness ==
    /\ strategy = "hybrid" /\ pc = "run"
    /\ chunks = << <<1, 2, 3, 4, 5>>, <<6, 7, 8, 9, 10>>, <<11, 12, 13, 14>> >>

\* C4: in a finished hybrid run no worker process has executed two chunks: the
\* 14 printed lines carry three distinct process identifiers, two of them on
\* exactly 5 lines each and the third on exactly 4 lines.
C4_OneChunkPerProcess ==
    (strategy = "hybrid" /\ pc = "done") =>
        /\ Cardinality(PrintedPids) = 3
        /\ \E p1, p2, p3 \in PrintedPids :
              /\ p1 # p2 /\ p1 # p3 /\ p2 # p3
              /\ Cardinality(LinesOfPid(p1)) = 5
              /\ Cardinality(LinesOfPid(p2)) = 5
              /\ Cardinality(LinesOfPid(p3)) = 4

\* C5 as stated: in the hybrid runner all 14 suspensions overlap (every item is
\* in flight before the first latency unit has passed) and the run completes in
\* 1 latency unit.
C5_HybridOneUnit ==
    strategy = "hybrid" =>
        /\ clock >= 1 => \A n \in Items : execs[n] = 1
        /\ pc = "done" => clock = 1

\* C5 as amended: with workers that take pending work whenever idle, all chunks
\* of the hybrid runner run in parallel across the processes (every chunk is
\* taken before the first latency unit has passed), inside each process at most
\* 3 items of its chunk are in flight at once, so at most 9 of the 14
\* suspensions overlap, and the run completes in 2 latency units.
C5_HybridTwoUnits ==
    strategy = "hybrid" =>
        /\ clock >= 1 => queue = <<>>
        /\ \A c \in 1..Len(chunks) : Cardinality(InFlightOf(c)) <= 3
        /\ Cardinality(running) <= 9
        /\ pc = "done" => clock = 2

\* The hybrid run has finished, after two latency units.
C5_Witness == strategy = "hybrid" /\ pc = "done" /\ clock = 2

\* C6: the calls in flight never exceed the worker count (1 sequential, 14 thread
\* pool, 3 process pool), and with workers that take a pending item whenever idle
\* the sequential run takes 14 latency units, the thread-pool run 1 and the
\* process-pool run ceil(14/3) = 5.
C6_InFlightAndDuration ==
    /\ strategy = "sequential" =>
          /\ Cardinality(running) <= 1
          /\ pc = "done" => clock = 14
    /\ strategy = "threadpool" =>
          /\ Cardinality(running) <= 14
          /\ pc = "done" => clock = 1
    /\ strategy = "processpool" =>
          /\ Cardinality(running) <= 3
          /\ pc = "done" => clock = CeilDiv(14, 3) /\ clock = 5

\* The process-pool run has finished, after five latency units.
C6_Witness == strategy = "processpool" /\ pc = "done" /\ clock = 5

-----------------------------------------------------------------------------
(* Properties of the harness *)

\* How many strategy subprocesses have been launched so far.
Launched == Len(captured) + Cardinality(alive)

Banner(j) == [kind |-> "running", label |-> approaches[j].label, text |-> ""]

IsBanner(e) == e.kind = "running"

\* What the loop has printed once k strategies were launched: per strategy its
\* banner, then (once its iteration has reported) its captured text.
RECURSIVE ExpectedOut(_)
ExpectedOut(k) ==
    IF k = 0 THEN <<>>
    ELSE ExpectedOut(k - 1) \o << Banner(k) >> \o
         (IF k <= Len(timings) THEN Report(approaches[k].label, captured[k]) ELSE <<>>)

\* C7: whichever of the four subprocesses exit with a nonzero status, the harness
\* never stops early (it can always take its next step until the table is
\* printed), a timing row is recorded for every strategy that has reported,
\* failed or not, the captured standard-error text of every reported strategy
\* that wrote any is printed under that strategy's label, and at the end all four
\* strategies were launched, four rows were recorded and the table was printed.
C7_PartialFailureTolerant ==
    /\ hpc \in {"launch", "wait", "report", "table", "done"}
    /\ hpc # "done" => ENABLED HarnessNext
    /\ Len(timings) <= Len(captured)
    /\ \A j \in 1..Len(timings) :
          /\ timings[j].label = approaches[j].label
          /\ captured[j].stderr # "" =>
                \E i \in 1..Len(out) :
                    out[i] = [kind |-> "stderr", label |-> approaches[j].label,
                              text |-> captured[j].stderr]
    /\ hpc = "done" =>
          /\ Len(captured) = Len(approaches)
          /\ Len(timings) = Len(approaches)
          /\ Len(table) = Len(approaches)

\* The first and third strategies failed, the others ran, and the table is printed.
C7_Witness ==
    /\ hpc = "done" /\ Len(table) = 4
    /\ captured[1].returncode # 0 /\ captured[2].returncode = 0
    /\ captured[3].returncode # 0 /\ captured[4].returncode = 0
    /\ \E i \in 1..Len(out) : out[i].kind = "stderr" /\ out[i].label = approaches[1].label

\* C8 as stated: in the printed table the sequential row's speedup is exactly 1,
\* every other row's speedup is sequential_time / row_time, and a row whose
\* elapsed time is 0 has speedup 0.
C8_SpeedupAsStated ==
    hpc = "done" =>
        /\ RatEq(table[1].speedup, <<1, 1>>)
        /\ \A i \in 2..Len(table) :
              IF timings[i].elapsed = 0
              THEN RatEq(table[i].speedup, <<0, 1>>)
              ELSE RatEq(table[i].speedup, <<timings[1].elapsed, timings[i].elapsed>>)

\* C8 as amended: the table has a row per strategy, no speedup is a division by
\* zero, the sequential row's speedup is exactly 1 when its elapsed time is
\* greater than 0, every row with an elapsed time greater than 0 has speedup
\* sequential_time / row_time, and every row with an elapsed time that is not
\* greater than 0 (the sequential row included) has speedup 0.
C8_SpeedupTable ==
    hpc = "done" =>
        /\ Len(table) = Len(approaches)
        /\ \A i \in 1..Len(table) : table[i].speedup[2] > 0
        /\ timings[1].elapsed > 0 => RatEq(table[1].speedup, <<1, 1>>)
        /\ \A i \in 1..Len(table) :
              IF timings[i].elapsed > 0
              THEN RatEq(table[i].speedup, <<timings[1].elapsed, timings[i].elapsed>>)
              ELSE RatEq(table[i].speedup, <<0, 1>>)

\* The table is printed with a sequential time of 0 (speedup 0), a later row of
\* 2 units and a later row of 0.
C8_Witness ==
    /\ hpc = "done"
    /\ timings[1].elapsed = 0 /\ table[1].speedup = <<0, 1>>
    /\ timings[2].elapsed = 2 /\ timings[3].elapsed = 0

\* C9 as stated: captured stdout/stderr text is in the harness's output only
\* when all four strategy subprocesses have been launched and have exited.
C9_OutputAfterAllRuns ==
    \A i \in 1..Len(out) :
        out[i].kind \in {"stdout", "stderr"} =>
            Len(captured) = Len(approaches) /\ alive = {}

\* C9 as amended: each strategy's captured output is printed right after that
\* strategy's subprocess has exited and before the next strategy is launched
\* (the harness's output is, per launched strategy in order, its banner followed
\* by its captured text as soon as its iteration has reported, and every earlier
\* strategy has reported whenever a subprocess is alive); only the comparison
\* table is printed after all four runs have finished.
C9_OutputAfterOwnRun ==
    /\ out = ExpectedOut(Launched)
    /\ alive # {} => Len(timings) = Len(captured)
    /\ hpc = "launch" => Len(timings) = Len(captured)
    /\ table # <<>> => Len(captured) = Len(approaches) /\ alive = {}

\* The first strategy's stdout is printed while the second subprocess is alive.
C9_Witness ==
    /\ 2 \in alive
    /\ \E i \in 1..Len(out) : out[i].kind = "stdout" /\ out[i].label = approaches[1].label

\* The state part of C10.
C10_OneAtATimeInOrder ==
    /\ Cardinality(alive) <= 1
    /\ \A c \in alive : c = Len(timings) + 1 /\ Len(captured) = Len(timings)
    /\ SelectSeq(out, IsBanner) = [j \in 1..Launched |-> Banner(j)]
    /\ \A j \in 1..Len(timings) : timings[j].label = approaches[j].label
    /\ table # <<>> =>
          /\ Len(timings) = Len(approaches)
          /\ timings[1].label = "Sequential (No Parallelism)"
          /\ \A j \in 1..Len(table) : table[j].label = approaches[j].label

\* C10: the strategies are launched in the fixed order sequential, thread-pool,
\* process-pool, hybrid, one at a time: a subprocess is launched only after the
\* previous one has exited and its TimingRecord was appended, so at most one is
\* alive; the timing sequence changes only by appending one record, its entries
\* never changing; and when the table is printed it holds exactly one record per
\* strategy in launch order, the sequential one first.
C10_LaunchOrderAndTimings ==
    /\ []C10_OneAtATimeInOrder
    /\ [][\/ timings' = timings
          \/ /\ Len(timings') = Len(timings) + 1
             /\ SubSeq(timings', 1, Len(timings)) = timings]_vars

\* All four strategies ran and the table is printed.
C10_Witness ==
    /\ hpc = "done" /\ Len(timings) = 4 /\ Len(table) = 4
    /\ Len(captured) = 4

====
